---- MODULE Spec2Model ----
(***************************************************************************)
(* Weighted random selection (package weightedrand): NewChooser builds a   *)
(* presorted, prefix-summed cache of the choices; Pick / PickSource draw   *)
(* r in [1, max] and binary-search the cumulative totals.                  *)
(*                                                                         *)
(* Integers are modelled with their two's-complement width, scaled down    *)
(* from 64 bits to Width bits: int64 is -2^(Width-1) .. 2^(Width-1)-1 and  *)
(* uint64 is 0 .. 2^Width-1.  The weight type W is either signed or        *)
(* unsigned of full width; every narrower integer type converts to int64   *)
(* and uint64 without change of value, so its values behave as the same    *)
(* values of the full-width type of its signedness.                        *)
(*                                                                         *)
(* The Item of a choice is opaque to the algorithm; the i-th choice passed *)
(* to NewChooser carries the item i, so that an item identifies an entry.  *)
(***************************************************************************)
EXTENDS Integers, Sequences, FiniteSets, TLC

\* Bit width of int64 / uint64 in the model.
Width == 3
\* Largest number of choices passed to NewChooser.
MaxLen == 3
\* Largest number of choices passed to NewChooser where the caller goes on
\* to write to its slice.
ShortLen == 2
\* Largest length of a slice handed to searchInts on its own.
SearchLen == 4
\* Largest element of a slice handed to searchInts on its own.
SearchMax == 2

Modulus == 2 ^ Width

\* const maxInt = math.MaxInt64
maxInt == 2 ^ (Width - 1) - 1
\* const maxUint64 = math.MaxUint64
maxUint64 == 2 ^ Width - 1

errNil == "nil"
errWeightOverflow == "errWeightOverflow"
errNoValidChoices == "errNoValidChoices"

\* The weight types W (constraint `integer`), by signedness.
WeightTypes == {"int64", "uint64"}

\* The values of a weight type.
WeightValues(t) == IF t = "int64" THEN (-maxInt - 1) .. maxInt ELSE 0 .. maxUint64

\* int64(n): the two's-complement conversion to the signed accumulator type.
ToInt64(n) ==
    LET m == n % Modulus
    IN  IF m > maxInt THEN m - Modulus ELSE m

\* uint64(n)
ToUint64(n) == n % Modulus

\* NewChoice(item, weight)
NewChoice(item, weight) == [Item |-> item, Weight |-> weight]

\* The less function handed to sort.Slice: compares the weights in type W.
Less(a, b) == a.Weight < b.Weight

\* sort.Slice(choices, less): the slice is reordered in place so that no
\* element is less than the one before it; the sort is not stable, so the
\* order of elements of equal weight is any order.
SortSlice(choices) ==
    LET n == Len(choices)
        sorted == { p \in Permutations(1 .. n) :
                      \A i \in 1 .. (n - 1) : ~Less(choices[p[i + 1]], choices[p[i]]) }
    IN  IF n = 0 THEN {<<>>}
        ELSE { [i \in 1 .. n |-> choices[p[i]]] : p \in sorted }

\* `if weight < 0 { continue }` on weight := int64(c.Weight)
IsNegative_Never(weight) == FALSE
IsNegative(weight) == weight < 0

\* `if uint64(c.Weight) >= maxInt`
ExceedsAlone(w) == ToUint64(w) >= maxInt

\* `if (maxInt - runningTotal) <= weight`
SumOverflows_NoTotal(runningTotal, weight) == maxInt <= weight
SumOverflows_Strict(runningTotal, weight) == (maxInt - runningTotal) < weight
SumOverflows(runningTotal, weight) == (maxInt - runningTotal) <= weight

\* The loop of NewChooser over the sorted choices, from (1-based) index i.
RECURSIVE NewChooserLoop(_, _, _, _)
NewChooserLoop(choices, i, totals, runningTotal) ==
    IF i > Len(choices)
    THEN [err |-> errNil, totals |-> totals, runningTotal |-> runningTotal]
    ELSE LET c == choices[i]
             weight == ToInt64(c.Weight)
         IN  IF IsNegative(weight)
             THEN NewChooserLoop(choices, i + 1, totals, runningTotal)
             ELSE IF ExceedsAlone(c.Weight)
             THEN [err |-> errWeightOverflow, totals |-> totals, runningTotal |-> runningTotal]
             ELSE IF SumOverflows(runningTotal, weight)
             THEN [err |-> errWeightOverflow, totals |-> totals, runningTotal |-> runningTotal]
             ELSE LET rt == ToInt64(runningTotal + weight)
                  IN  NewChooserLoop(choices, i + 1, [totals EXCEPT ![i] = rt], rt)

\* The nil *Chooser.
NoChooser == [data |-> <<>>, totals |-> <<>>, max |-> 0]

\* NewChooser after the sort: the totals loop, the check of runningTotal and
\* the construction of the Chooser.  sorted is the slice as sort.Slice left it.
NewChooserSorted_Partial(sorted) ==
    LET loop == NewChooserLoop(sorted, 1, [i \in 1 .. Len(sorted) |-> 0], 0)
    IN  IF loop.err # errNil
        THEN [chooser |-> NoChooser, err |-> loop.err]
        ELSE [chooser |-> [data |-> sorted, totals |-> loop.totals, max |-> loop.runningTotal],
              err |-> IF loop.runningTotal < 1 THEN errNoValidChoices ELSE errNil]
NewChooserSorted(sorted) ==
    LET loop == NewChooserLoop(sorted, 1, [i \in 1 .. Len(sorted) |-> 0], 0)
    IN  IF loop.err # errNil
        THEN [chooser |-> NoChooser, err |-> loop.err]
        ELSE IF loop.runningTotal < 1
        THEN [chooser |-> NoChooser, err |-> errNoValidChoices]
        ELSE [chooser |-> [data |-> sorted, totals |-> loop.totals, max |-> loop.runningTotal],
              err |-> errNil]

\* searchInts(a, x): the loop on i, j (0-based indexes into a).
RECURSIVE searchLoop(_, _, _, _)
searchLoop(a, x, i, j) ==
    IF i < j
    THEN LET h == (i + j) \div 2
         IN  IF a[h + 1] < x THEN searchLoop(a, x, h + 1, j) ELSE searchLoop(a, x, i, h)
    ELSE i

RECURSIVE searchLoop_UpperBound(_, _, _, _)
searchLoop_UpperBound(a, x, i, j) ==
    IF i < j
    THEN LET h == (i + j) \div 2
         IN  IF a[h + 1] <= x THEN searchLoop_UpperBound(a, x, h + 1, j)
             ELSE searchLoop_UpperBound(a, x, i, h)
    ELSE i
searchInts_UpperBound(a, x) == searchLoop_UpperBound(a, x, 0, Len(a))
searchInts(a, x) == searchLoop(a, x, 0, Len(a))

\* One iteration of the loop of searchInts: the i, j it leaves.
searchNext_NoAdvance(a, x, i, j) ==
    LET h == (i + j) \div 2
    IN  IF a[h + 1] < x THEN <<h, j>> ELSE <<i, h>>
searchNext(a, x, i, j) ==
    LET h == (i + j) \div 2
    IN  IF a[h + 1] < x THEN <<h + 1, j>> ELSE <<i, h>>

\* rand.Int63n(n) for n > 0: the values it can return.
Int63n(n) == 0 .. (n - 1)

\* r := rand.Int63n(c.max) + 1, for the value v that Int63n returned.
DrawR_NoShift(v) == v
DrawR(v) == ToInt64(v + 1)

\* i := searchInts(c.totals, r), 0-based.
PickIndex(c, v) == searchInts(c.totals, DrawR(v))

\* c.data[i] panics when i is out of range.
Panics(c, v) == PickIndex(c, v) >= Len(c.data)

PanicItem == 0

\* return c.data[i].Item
PickItem_Last(c, v) == IF Panics(c, v) THEN PanicItem ELSE c.data[Len(c.data)].Item
PickItem(c, v) == IF Panics(c, v) THEN PanicItem ELSE c.data[PickIndex(c, v) + 1].Item

VARIABLES
    wtype,      \* the weight type W of the instantiation
    cs,         \* the caller's slice of choices (sorted in place by NewChooser)
    chooser,    \* the *Chooser returned by NewChooser
    err,        \* the error returned by NewChooser
    pc,         \* "start", "built", "failed" or "panic"
    picked,     \* the last draw: r, the index found and the item returned
    written,    \* the caller has written to an element of cs after NewChooser
    g,          \* the call of Pick or PickSource each goroutine is in
    search      \* a call of searchInts(a, x): i, j, the iterations made

vars == <<wtype, cs, chooser, err, pc, picked, written, g, search>>

\* No call of searchInts is followed step by step.
NoSearch == [pc |-> "none", a |-> <<>>, x |-> 0, i |-> 0, j |-> 0, iters |-> 0]

\* The goroutines that share one Chooser (b.RunParallel).
Goroutines == {"g1", "g2"}

\* A goroutine that is in no call.
Idle == [pc |-> "idle", r |-> 0, i |-> 0, item |-> PanicItem]

NoPick == [done |-> FALSE, r |-> 0, i |-> 0, item |-> PanicItem]

\* The slice of the n choices with the weights f[1], ..., f[n].
ChoiceSlice(n, f) == [i \in 1 .. n |-> NewChoice(i, f[i])]

\* The caller holds a slice of at most maxLen choices with weights of type W.
InitLen(maxLen) ==
    /\ wtype \in WeightTypes
    /\ \E n \in 0 .. maxLen :
         \E f \in [1 .. n -> WeightValues(wtype)] : cs = ChoiceSlice(n, f)
    /\ chooser = NoChooser
    /\ err = errNil
    /\ pc = "start"
    /\ picked = NoPick
    /\ written = FALSE
    /\ g = [p \in Goroutines |-> Idle]
    /\ search = NoSearch

\* The caller passes at most MaxLen choices with weights of type W.
Init == InitLen(MaxLen)

\* c, err := NewChooser(cs...)
NewChooser ==
    /\ pc = "start"
    /\ \E sorted \in SortSlice(cs) :
         LET res == NewChooserSorted(sorted)
         IN  /\ cs' = sorted
             /\ chooser' = res.chooser
             /\ err' = res.err
             /\ pc' = IF res.err = errNil THEN "built" ELSE "failed"
    /\ UNCHANGED <<wtype, picked, written, g, search>>

\* The body shared by Pick and PickSource, for the value v that Int63n(c.max)
\* returned from the source of randomness of the entry point.
Draw(v) ==
    /\ picked' = [done |-> TRUE, r |-> DrawR(v), i |-> PickIndex(chooser, v),
                  item |-> PickItem(chooser, v)]
    /\ pc' = IF Panics(chooser, v) THEN "panic" ELSE "built"
    /\ UNCHANGED <<wtype, cs, chooser, err, written, g, search>>

\* c.Pick()
Pick ==
    /\ pc = "built"
    /\ \E v \in Int63n(chooser.max) : Draw(v)

\* c.PickSource(rs)
PickSource ==
    /\ pc = "built"
    /\ \E v \in Int63n(chooser.max) : Draw(v)

Next == NewChooser \/ Pick \/ PickSource

Spec == Init /\ [][Next]_vars

----------------------------------------------------------------------------
(* The caller of NewChooser(cs...) that keeps its slice: the variadic call  *)
(* passes the slice cs itself, sort.Slice sorts it in place and the Chooser *)
(* keeps it as data, so cs and c.data are one array.                        *)

\* The item of a choice the caller writes after NewChooser.
CallerItem == MaxLen + 1

\* The choices the caller writes into its slice.
CallerChoices == { NewChoice(CallerItem, w) : w \in 0 .. 1 }

\* cs[k] = c, by the caller, after a successful NewChooser(cs...).
CallerWrite ==
    /\ pc = "built"
    /\ ~written
    /\ \E k \in 1 .. Len(cs), c \in CallerChoices :
         /\ cs' = [cs EXCEPT ![k] = c]
         /\ chooser' = [chooser EXCEPT !.data = cs']
    /\ written' = TRUE
    /\ UNCHANGED <<wtype, err, pc, picked, g, search>>

InitAlias == InitLen(ShortLen)

NextAlias == NewChooser \/ Pick \/ PickSource \/ CallerWrite

SpecAlias == InitAlias /\ [][NextAlias]_vars

----------------------------------------------------------------------------
(* Goroutines that call Pick or PickSource on one shared Chooser, each with *)
(* its own source of randomness.  A call reads c.max to draw r, then reads  *)
(* c.totals in searchInts, then reads c.data[i]; r and i are local to the   *)
(* call.  The steps of the calls interleave in any order.                   *)

\* The r that the search of the call of goroutine p uses: its own local r.
LocalR_Shared(gs, p) ==
    LET rs == { gs[q].r : q \in Goroutines }
    IN  CHOOSE x \in rs : \A y \in rs : y <= x
LocalR(gs, p) == gs[p].r

\* r := Int63n(c.max) + 1 in the call of goroutine p, for the value v that
\* Int63n returned.
GoDraw(p, v) ==
    /\ g' = [g EXCEPT ![p] = [pc |-> "drawn", r |-> DrawR(v), i |-> 0, item |-> PanicItem]]
    /\ UNCHANGED <<wtype, cs, chooser, err, pc, picked, written, search>>

\* Goroutine p calls c.Pick(): r from the global source.
GoPick(p) ==
    /\ pc = "built"
    /\ g[p].pc \in {"idle", "returned"}
    /\ \E v \in Int63n(chooser.max) : GoDraw(p, v)

\* Goroutine p calls c.PickSource(rs): r from its own source rs.
GoPickSource(p) ==
    /\ pc = "built"
    /\ g[p].pc \in {"idle", "returned"}
    /\ \E v \in Int63n(chooser.max) : GoDraw(p, v)

\* i := searchInts(c.totals, r) in the call of goroutine p.
GoSearch(p) ==
    /\ pc = "built"
    /\ g[p].pc = "drawn"
    /\ g' = [g EXCEPT ![p].pc = "found", ![p].i = searchInts(chooser.totals, LocalR(g, p))]
    /\ UNCHANGED <<wtype, cs, chooser, err, pc, picked, written, search>>

\* return c.data[i].Item in the call of goroutine p; an index out of range
\* panics and ends the program.
GoReturn(p) ==
    /\ pc = "built"
    /\ g[p].pc = "found"
    /\ IF g[p].i >= Len(chooser.data)
       THEN /\ pc' = "panic"
            /\ g' = [g EXCEPT ![p].pc = "panic"]
       ELSE /\ pc' = pc
            /\ g' = [g EXCEPT ![p].pc = "returned", ![p].item = chooser.data[g[p].i + 1].Item]
    /\ UNCHANGED <<wtype, cs, chooser, err, picked, written, search>>

InitConc == InitLen(ShortLen)

NextConc ==
    \/ NewChooser
    \/ \E p \in Goroutines : GoPick(p)
    \/ \E p \in Goroutines : GoPickSource(p)
    \/ \E p \in Goroutines : GoSearch(p)
    \/ \E p \in Goroutines : GoReturn(p)

SpecConc == InitConc /\ [][NextConc]_vars

----------------------------------------------------------------------------
(* searchInts(a, x) on its own, one loop iteration at a time.               *)

\* The slices handed to searchInts: any order of the elements.
SearchSlices == UNION { [1 .. n -> 0 .. SearchMax] : n \in 0 .. SearchLen }

\* The values searched for.
SearchValues == 0 .. (SearchMax + 1)

\* i, j := 0, len(a)
InitSearch ==
    /\ wtype = "int64"
    /\ cs = <<>>
    /\ chooser = NoChooser
    /\ err = errNil
    /\ pc = "start"
    /\ picked = NoPick
    /\ written = FALSE
    /\ g = [p \in Goroutines |-> Idle]
    /\ \E a \in SearchSlices, x \in SearchValues :
         search = [pc |-> "loop", a |-> a, x |-> x, i |-> 0, j |-> Len(a), iters |-> 0]

\* for i < j { ... }: one iteration.
SearchStep ==
    /\ search.pc = "loop"
    /\ search.i < search.j
    /\ LET ij == searchNext(search.a, search.x, search.i, search.j)
       IN  search' = [search EXCEPT !.i = ij[1], !.j = ij[2], !.iters = @ + 1]
    /\ UNCHANGED <<wtype, cs, chooser, err, pc, picked, written, g>>

\* return i
SearchReturn ==
    /\ search.pc = "loop"
    /\ ~(search.i < search.j)
    /\ search' = [search EXCEPT !.pc = "done"]
    /\ UNCHANGED <<wtype, cs, chooser, err, pc, picked, written, g>>

NextSearch == SearchStep \/ SearchReturn

\* A call that has started goes on until it returns.
SpecSearch == InitSearch /\ [][NextSearch]_vars /\ WF_vars(NextSearch)

----------------------------------------------------------------------------
(* Definitions used to state the properties. *)

\* NewChooser has returned (with or without error).
Returned == pc # "start"

\* NewChooser has returned a Chooser and a nil error.
Built == pc \in {"built", "panic"}

\* The mathematical sum of the non-negative weights of a sequence of choices.
RECURSIVE SumNonNeg(_)
SumNonNeg(s) ==
    IF s = <<>> THEN 0
    ELSE (IF Head(s).Weight > 0 THEN Head(s).Weight ELSE 0) + SumNonNeg(Tail(s))

\* The number of values r in [1, max] (one per value of Int63n) whose draw
\* selects the entry at (1-based) position k of c.data.
Count(c, k) == Cardinality({ v \in Int63n(c.max) : PickIndex(c, v) = k - 1 })

\* The choices of s whose weight is not negative, in the order of s.
RECURSIVE NonNegative(_)
NonNegative(s) ==
    IF s = <<>> THEN <<>>
    ELSE IF Head(s).Weight < 0 THEN NonNegative(Tail(s))
    ELSE <<Head(s)>> \o NonNegative(Tail(s))

HasNegative == \E k \in 1 .. Len(cs) : cs[k].Weight < 0

\* The weight of the entry a draw selects (of no entry when it panics).
PickWeight(c, v) == IF Panics(c, v) THEN -1 ELSE c.data[PickIndex(c, v) + 1].Weight

----------------------------------------------------------------------------
\* C1: in every built Chooser, the number of r in [1, max] whose draw selects
\* entry k equals the weight of that entry when the weight is positive and 0
\* otherwise.
C1_ExactShare ==
    Built =>
      \A k \in 1 .. Len(chooser.data) :
        Count(chooser, k) =
          IF chooser.data[k].Weight > 0 THEN chooser.data[k].Weight ELSE 0

\* C2: NewChooser returns errWeightOverflow whenever some single weight is
\* greater than the accumulator's maximum, whatever the other choices are.
C2_SingleWeightOverflow ==
    (Returned /\ \E k \in 1 .. Len(cs) : cs[k].Weight > maxInt)
      => err = errWeightOverflow

\* C3: on every built Chooser, for every r in [1, max] the index found by
\* searchInts is within the bounds of data, so no draw panics.
C3_PickTotal ==
    /\ pc # "panic"
    /\ Built =>
         \A v \in Int63n(chooser.max) :
           /\ PickIndex(chooser, v) \in 0 .. (Len(chooser.data) - 1)
           /\ \E k \in 1 .. Len(cs) : cs[k].Item = PickItem(chooser, v)

\* C4: in every built Chooser, totals is as long as data and non-decreasing,
\* totals[i] is the sum of the non-negative weights of data[0..i], and max is
\* the last total and the sum of all the non-negative input weights.
C4_TotalsInvariant ==
    Built =>
      LET n == Len(chooser.data)
      IN  /\ Len(chooser.totals) = n
          /\ \A i \in 1 .. n, j \in 1 .. n :
               i <= j => chooser.totals[i] <= chooser.totals[j]
          /\ \A i \in 1 .. n :
               chooser.totals[i] = SumNonNeg(SubSeq(chooser.data, 1, i))
          /\ n > 0
          /\ chooser.max = chooser.totals[n]
          /\ chooser.max = SumNonNeg(cs)

\* C5: when every single weight is within the accumulator's range and the sum
\* of the non-negative weights is greater than the accumulator's maximum,
\* NewChooser returns errWeightOverflow; a Chooser it returns for weights
\* within range has the unwrapped sum as max.
C5_SumOverflow ==
    (Returned /\ \A k \in 1 .. Len(cs) : cs[k].Weight <= maxInt) =>
      /\ SumNonNeg(cs) > maxInt => err = errWeightOverflow
      /\ err = errNil => (chooser.max = SumNonNeg(cs) /\ chooser.max <= maxInt)

\* C5 witness: an overflow of the sum of at least two weights, each of them
\* below the accumulator's maximum.
C5_Witness ==
    /\ pc = "failed"
    /\ err = errWeightOverflow
    /\ Len(cs) >= 2
    /\ \A k \in 1 .. Len(cs) : cs[k].Weight < maxInt
    /\ SumNonNeg(cs) > maxInt

\* C6: NewChooser succeeds when the sum of the non-negative weights equals
\* the accumulator's maximum exactly.
C6_ExactMaxSucceeds ==
    (Returned /\ SumNonNeg(cs) = maxInt) => err = errNil

\* C7: NewChooser returns errNoValidChoices when the input is empty or no
\* weight is >= 1, and returns no error when there is no overflow and some
\* weight is >= 1.
C7_NoValidChoices ==
    Returned =>
      LET somePositive == \E k \in 1 .. Len(cs) : cs[k].Weight >= 1
      IN  /\ ~somePositive => err = errNoValidChoices
          /\ (somePositive /\ err # errWeightOverflow) => err = errNil

\* C8: in a built Chooser no r in [1, max] makes a draw select an entry of
\* weight 0, and no Pick or PickSource has returned such an entry.
C8_ZeroNeverPicked ==
    Built =>
      /\ \A v \in Int63n(chooser.max) :
           \A k \in 1 .. Len(chooser.data) :
             chooser.data[k].Weight = 0 => PickIndex(chooser, v) # k - 1
      /\ (picked.done /\ pc = "built") => cs[picked.i + 1].Weight # 0

\* C8 witness: a draw has returned from a Chooser that holds a zero-weight
\* entry.
C8_Witness ==
    /\ pc = "built"
    /\ picked.done
    /\ \E k \in 1 .. Len(chooser.data) : chooser.data[k].Weight = 0

\* C9 (as claimed): a collection with negative-weight entries gives the same
\* outcome of NewChooser, the same max and, for every r in [1, max], the same
\* item as the collection without its negative-weight entries; no draw
\* returns a negative-weight entry.
C9_NegativeSameItem ==
    (Returned /\ HasNegative) =>
      \A sorted \in SortSlice(NonNegative(cs)) :
        LET res == NewChooserSorted(sorted)
        IN  /\ res.err = err
            /\ err = errNil =>
                 /\ res.chooser.max = chooser.max
                 /\ \A v \in Int63n(chooser.max) :
                      /\ PickWeight(chooser, v) >= 0
                      /\ PickItem(chooser, v) = PickItem(res.chooser, v)

\* C9 (amended): a collection with negative-weight entries gives the same
\* outcome of NewChooser, the same max and, for every r in [1, max], an entry
\* of the same weight as the collection without its negative-weight entries;
\* no draw panics or returns a negative-weight entry.
C9_NegativeSameWeight ==
    (Returned /\ HasNegative) =>
      \A sorted \in SortSlice(NonNegative(cs)) :
        LET res == NewChooserSorted(sorted)
        IN  /\ res.err = err
            /\ err = errNil =>
                 /\ res.chooser.max = chooser.max
                 /\ \A v \in Int63n(chooser.max) :
                      /\ PickWeight(chooser, v) >= 0
                      /\ PickWeight(chooser, v) = PickWeight(res.chooser, v)

\* C9 witness: a draw has returned from a Chooser built from a collection
\* that holds a negative-weight entry and two entries of positive weight.
C9_Witness ==
    /\ pc = "built"
    /\ picked.done
    /\ HasNegative
    /\ Cardinality({ k \in 1 .. Len(cs) : cs[k].Weight > 0 }) >= 2

\* C10: in every built Chooser, for entries of positive weights a < b,
\* strictly more r in [1, max] select the entry of weight b than the entry
\* of weight a.
C10_MonotonicCounts ==
    Built =>
      \A k1 \in 1 .. Len(chooser.data), k2 \in 1 .. Len(chooser.data) :
        (0 < chooser.data[k1].Weight /\ chooser.data[k1].Weight < chooser.data[k2].Weight)
          => Count(chooser, k1) < Count(chooser, k2)

\* C11: a Chooser built from a collection in which exactly one entry has a
\* positive weight and every other entry has weight 0 returns the item of
\* that entry on every draw, for every value the source can produce.
C11_SingleChoice ==
    \A k \in 1 .. Len(cs) :
      (Built /\ cs[k].Weight > 0
             /\ \A m \in 1 .. Len(cs) : m # k => cs[m].Weight = 0) =>
        /\ pc # "panic"
        /\ \A v \in Int63n(chooser.max) : PickItem(chooser, v) = cs[k].Item
        /\ picked.done => picked.item = cs[k].Item

\* C11 witness: a draw has returned from a Chooser built from one entry of
\* positive weight and at least one entry of weight 0.
C11_Witness ==
    /\ pc = "built"
    /\ picked.done
    /\ Len(cs) >= 2
    /\ Cardinality({ k \in 1 .. Len(cs) : cs[k].Weight > 0 }) = 1
    /\ \A k \in 1 .. Len(cs) : cs[k].Weight >= 0

\* C12: NewChooser returns either a Chooser and a nil error, or no Chooser
\* and errWeightOverflow, or no Chooser and errNoValidChoices, and nothing
\* else; a draw reports no error (it leaves the error nil).
C12_ThreeOutcomes ==
    Returned =>
      \/ /\ err = errNil
         /\ pc \in {"built", "panic"}
         /\ chooser # NoChooser
         /\ chooser.data = cs
      \/ /\ err \in {errWeightOverflow, errNoValidChoices}
         /\ pc = "failed"
         /\ chooser = NoChooser
         /\ ~picked.done

\* C12 witness: NewChooser has returned a Chooser and a draw has returned.
C12_Witness ==
    /\ picked.done
    /\ pc = "built"
    /\ err = errNil
    /\ chooser # NoChooser

C14_CallerWriteNoEffect ==
    [][(~written /\ written') =>
         /\ chooser'.data = chooser.data
         /\ \A v \in Int63n(chooser.max) : PickItem(chooser', v) = PickItem(chooser, v)]_vars

\* C14 (amended): the data of a Chooser is the caller's slice, sorted in
\* place; a write by the caller to an element of cs after a successful
\* NewChooser(cs...) is a write to that entry of the Chooser and leaves
\* totals, max and the index selected for every r as they were, and a draw
\* returns the item that the caller's slice holds at the selected index.
C14_CallerWriteAliased ==
    /\ [](Built =>
           /\ chooser.data = cs
           /\ \A v \in Int63n(chooser.max) :
                ~Panics(chooser, v) => PickItem(chooser, v) = cs[PickIndex(chooser, v) + 1].Item)
    /\ [][(~written /\ written') =>
           /\ chooser'.totals = chooser.totals
           /\ chooser'.max = chooser.max
           /\ \A v \in Int63n(chooser.max) : PickIndex(chooser', v) = PickIndex(chooser, v)
           /\ \E k \in 1 .. Len(cs) :
                /\ chooser'.data[k] = cs'[k]
                /\ chooser'.data[k] # chooser.data[k]]_vars

\* C14 witness: after the caller's write, a draw has returned the item the
\* caller wrote.
C14_Witness ==
    /\ written
    /\ pc = "built"
    /\ picked.done
    /\ picked.item = CallerItem

\* C13: with any interleaving of the steps of concurrent calls of Pick and
\* PickSource on one Chooser, no call writes data, totals or max, and each
\* call finds the index and returns the item (or panics) as a lone call with
\* the same r does.
C13_ConcurrentDraws ==
    /\ [][pc # "start" => (chooser' = chooser /\ cs' = cs)]_vars
    /\ [](\A p \in Goroutines :
            /\ g[p].pc \in {"found", "returned", "panic"} =>
                 g[p].i = PickIndex(chooser, g[p].r - 1)
            /\ g[p].pc = "returned" =>
                 (~Panics(chooser, g[p].r - 1) /\ g[p].item = PickItem(chooser, g[p].r - 1))
            /\ g[p].pc = "panic" => Panics(chooser, g[p].r - 1))

\* C13 witness: one call has returned while another call, with another r,
\* is between its search and its return.
C13_Witness ==
    /\ g["g1"].pc = "returned"
    /\ g["g2"].pc = "found"
    /\ g["g1"].r # g["g2"].r
    /\ g["g1"].item # chooser.data[g["g2"].i + 1].Item

\* The smallest 0-based index of a whose element is >= x, len(a) when there
\* is none: the linear scan.
LowerBound(a, x) ==
    LET hits == { k \in 1 .. Len(a) : a[k] >= x }
    IN  IF hits = {} THEN Len(a)
        ELSE (CHOOSE k \in hits : \A m \in hits : k <= m) - 1

NonDecreasing(a) == \A k \in 1 .. (Len(a) - 1) : a[k] <= a[k + 1]

\* The smallest k with 2^k >= n, for n >= 1.
CeilLog2(n) == CHOOSE k \in 0 .. n : 2 ^ k >= n /\ \A m \in 0 .. (k - 1) : 2 ^ m < n

\* searchInts as a step-by-step call returns the lower bound of every
\* non-decreasing slice, and the value of the searchInts operator.
SearchLowerBound ==
    search.pc = "done" =>
      /\ search.i = searchInts(search.a, search.x)
      /\ NonDecreasing(search.a) => search.i = LowerBound(search.a, search.x)

\* C15: for every non-decreasing a and every x, searchInts(a, x) is the
\* smallest index i with a[i] >= x, and len(a) when there is none; for the
\* totals of a built Chooser and every r in [1, max] it is the first index
\* whose total reaches r.
C15_SearchIsLowerBound ==
    /\ \A a \in SearchSlices, x \in SearchValues :
         NonDecreasing(a) => searchInts(a, x) = LowerBound(a, x)
    /\ Built =>
         \A v \in Int63n(chooser.max) :
           PickIndex(chooser, v) = LowerBound(chooser.totals, DrawR(v))

\* C16: searchInts terminates on every input: each iteration makes the
\* interval [i, j) strictly smaller and keeps 0 <= i <= j <= len(a), the
\* loop makes at most ceil(log2(len(a) + 1)) iterations, and the call
\* returns.
C16_SearchTerminates ==
    /\ [](search.pc # "none" =>
           /\ 0 <= search.i
           /\ search.i <= search.j
           /\ search.j <= Len(search.a)
           /\ search.iters <= CeilLog2(Len(search.a) + 1))
    /\ [][search'.iters # search.iters =>
           /\ search'.iters = search.iters + 1
           /\ search'.j - search'.i < search.j - search.i]_vars
    /\ <>(search.pc = "done")

\* C16 witness: a call on a slice of more than two elements has returned
\* after as many iterations as the bound allows.
C16_Witness ==
    /\ search.pc = "done"
    /\ Len(search.a) >= 3
    /\ search.iters = CeilLog2(Len(search.a) + 1)

====
